---- MODULE Spec2Model ----
(***************************************************************************)
(* Model of src/src/cmdline.rs: the kernel command line parser of rsinit.  *)
(*                                                                         *)
(* A Rust String is modelled as a sequence of one-character strings, an    *)
(* Option<T> as a record [some, val], a CString as the byte sequence with  *)
(* its terminating NUL, MsFlags as the set of the flag names that are set. *)
(* parse_cmdline is unfolded into one step per character of the loop       *)
(* (ScanChar), the test after the loop (LoopEnd) and the call of           *)
(* parse_nfsroot (ParseNfsroot).                                           *)
(***************************************************************************)
EXTENDS Naturals, Sequences, FiniteSets

(* ------------------------------ characters ---------------------------- *)
SP    == " "
NL    == "\n"
QUOTE == "\""
EQ    == "="
COMMA == ","
COLON == ":"
CR    == "\r"
NUL   == "NUL"      \* the byte 0, written as a token

(* ------------------------------ bounds -------------------------------- *)
\* number of chunks a general command line is made of
MaxChunks == 2
\* number of chunks a network-root command line is made of
MaxNfsChunks == 3

(* ------------------------- literals of the source --------------------- *)
K_root       == <<"r","o","o","t">>
K_rootfstype == <<"r","o","o","t","f","s","t","y","p","e">>
K_rootflags  == <<"r","o","o","t","f","l","a","g","s">>
K_ro         == <<"r","o">>
K_rw         == <<"r","w">>
K_nfsroot    == <<"n","f","s","r","o","o","t">>
K_init       == <<"i","n","i","t">>
DEV_NFS      == <<"/","d","e","v","/","n","f","s">>
NFS          == <<"n","f","s">>
NOLOCK       == <<"n","o","l","o","c","k">>
ADDR         == <<",","a","d","d","r","=">>
BOOTSERVER   == <<"b","o","o","t","s","e","r","v","e","r">>
SBIN_INIT    == <<"/","s","b","i","n","/","i","n","i","t",NUL>>
MS_RDONLY    == "MS_RDONLY"

(* ------------------------- Option and Result -------------------------- *)
None    == [some |-> FALSE, val |-> <<>>]
Some(v) == [some |-> TRUE, val |-> v]

Ok                   == [kind |-> "Ok", key |-> <<>>]
MissingArgument(key) == [kind |-> "MissingArgument", key |-> key]
MissingNfsRoot       == [kind |-> "MissingNfsRoot", key |-> <<>>]
ReadFailed           == [kind |-> "ReadFailed", key |-> <<>>]
Panic                == [kind |-> "Panic", key |-> <<>>]
Running              == [kind |-> "Running", key |-> <<>>]

(* ------------------------- string helpers ----------------------------- *)
Contains(s, c) == \E i \in 1..Len(s) : s[i] = c

\* index of the first occurrence of c in s, 0 when there is none
Find(s, c) ==
  IF Contains(s, c)
  THEN CHOOSE i \in 1..Len(s) : s[i] = c /\ \A j \in 1..(i-1) : s[j] # c
  ELSE 0

\* str::split_once: None, or the texts before and after the first c
split_once(s, c) ==
  LET i == Find(s, c)
  IN IF i = 0 THEN [some |-> FALSE, left |-> <<>>, right |-> <<>>]
     ELSE [some |-> TRUE, left |-> SubSeq(s, 1, i-1), right |-> SubSeq(s, i+1, Len(s))]

\* CString::new: fails on an interior NUL, else appends the terminator
CString_new(bytes) ==
  IF Contains(bytes, NUL) THEN [ok |-> FALSE, cstr |-> <<>>]
  ELSE [ok |-> TRUE, cstr |-> bytes \o <<NUL>>]

(* ------------------------- CmdlineOptions ----------------------------- *)
DefaultOptions ==
  [root |-> None, rootfstype |-> None, rootflags |-> None,
   rootfsflags |-> {MS_RDONLY}, nfsroot |-> None, init |-> SBIN_INIT]

\* MsFlags::insert and MsFlags::remove of MS_RDONLY
\* (insert_rdonly_noop: "ro" taken for the default and left without effect)
insert_rdonly_noop(flags) == flags
insert_rdonly(flags) == flags \cup {MS_RDONLY}
remove_rdonly(flags) == flags \ {MS_RDONLY}

ensure_value(key, value) ==
  IF ~value.some THEN [res |-> MissingArgument(key), value |-> None]
  ELSE [res |-> Ok, value |-> value]

parse_option(key, value, options) ==
  LET ev == ensure_value(key, value)
      failed == [res |-> ev.res, options |-> options]
  IN CASE key = K_root ->
            IF ev.res # Ok THEN failed
            ELSE [res |-> Ok, options |-> [options EXCEPT !.root = ev.value]]
       [] key = K_rootfstype ->
            IF ev.res # Ok THEN failed
            ELSE [res |-> Ok, options |-> [options EXCEPT !.rootfstype = ev.value]]
       [] key = K_rootflags ->
            [res |-> Ok, options |-> [options EXCEPT !.rootflags = value]]
       [] key = K_ro ->
            [res |-> Ok, options |->
               [options EXCEPT !.rootfsflags = insert_rdonly(options.rootfsflags)]]
       [] key = K_rw ->
            [res |-> Ok, options |->
               [options EXCEPT !.rootfsflags = remove_rdonly(options.rootfsflags)]]
       [] key = K_nfsroot ->
            IF ev.res # Ok THEN failed
            ELSE [res |-> Ok, options |-> [options EXCEPT !.nfsroot = ev.value]]
       [] key = K_init ->
            IF ev.res # Ok THEN failed
            ELSE LET cs == CString_new(ev.value.val)
                 IN IF ~cs.ok THEN [res |-> Panic, options |-> options]
                    ELSE [res |-> Ok, options |-> [options EXCEPT !.init = cs.cstr]]
       [] OTHER -> [res |-> Ok, options |-> options]

\* str::lines: the text cut at every "\n", a "\r" before the "\n" dropped, no
\* empty line for what follows the last "\n"
RECURSIVE lines(_)
lines(s) ==
  IF s = <<>> THEN <<>>
  ELSE LET i    == Find(s, NL)
           raw  == IF i = 0 THEN s ELSE SubSeq(s, 1, i-1)
           rest == IF i = 0 THEN <<>> ELSE SubSeq(s, i+1, Len(s))
           line == IF i # 0 /\ raw # <<>> /\ raw[Len(raw)] = CR
                   THEN SubSeq(raw, 1, Len(raw)-1) ELSE raw
       IN <<line>> \o lines(rest)

\* (find_bootserver_prefix: the key matched with starts_with, no space needed)
find_bootserver_prefix(ls) ==
  LET n    == Len(BOOTSERVER)
      hits == {i \in 1..Len(ls) : Len(ls[i]) >= n /\ SubSeq(ls[i], 1, n) = BOOTSERVER}
      l    == ls[CHOOSE i \in hits : \A j \in hits : i <= j]
  IN IF hits = {} THEN None ELSE Some(SubSeq(l, n + 2, Len(l)))
\* (find_bootserver_last: the `break` forgotten, the last matching line wins)
find_bootserver_last(ls) ==
  LET hits == {i \in 1..Len(ls) :
                 split_once(ls[i], SP).some /\ split_once(ls[i], SP).left = BOOTSERVER}
  IN IF hits = {} THEN None
     ELSE Some(split_once(ls[CHOOSE i \in hits : \A j \in hits : j <= i], SP).right)
\* the loop over pnp.lines(): the value of the first line whose key is "bootserver"
find_bootserver(ls) ==
  LET hits == {i \in 1..Len(ls) :
                 split_once(ls[i], SP).some /\ split_once(ls[i], SP).left = BOOTSERVER}
  IN IF hits = {} THEN None
     ELSE Some(split_once(ls[CHOOSE i \in hits : \A j \in hits : i <= j], SP).right)

\* (explicit_host_last: rsplit_once in the place of split_once)
explicit_host_last(nfsroot) ==
  SubSeq(nfsroot, 1, (CHOOSE i \in 1..Len(nfsroot) :
                        nfsroot[i] = COLON /\ \A j \in (i+1)..Len(nfsroot) : nfsroot[j] # COLON) - 1)
\* the host of a host:path root: the text before its first colon
explicit_host(nfsroot) == split_once(nfsroot, COLON).left

\* (set_nfs_root_no_type: the assignment of rootfstype forgotten)
set_nfs_root_no_type(options, nfsroot, rootflags) ==
  [options EXCEPT !.root = Some(nfsroot), !.rootflags = Some(rootflags)]
\* (set_nfs_root_strips: nfsroot too replaced by the resolved path)
set_nfs_root_strips(options, nfsroot, rootflags) ==
  [options EXCEPT !.root = Some(nfsroot),
                  !.rootflags = Some(rootflags),
                  !.rootfstype = Some(NFS),
                  !.nfsroot = Some(nfsroot)]
\* lines 88-90: the three fields parse_nfsroot overwrites
set_nfs_root(options, nfsroot, rootflags) ==
  [options EXCEPT !.root = Some(nfsroot),
                  !.rootflags = Some(rootflags),
                  !.rootfstype = Some(NFS)]

\* (needs_record_always: the record consulted whatever nfsroot holds)
needs_record_always(nfsroot) == TRUE
\* line 69: the host has to come from /proc/net/pnp
needs_record(nfsroot) == ~Contains(nfsroot, COLON)

\* (unassigned_type_first: rootfstype assigned at the top of parse_nfsroot)
unassigned_type_first(options) == [options EXCEPT !.rootfstype = Some(NFS)]
\* lines 58-71 write locals only: the options when the read fails
unassigned(options) == options

\* read is the outcome of read_to_string("/proc/net/pnp"): [ok, text].
\* Returns the result, the options left behind and whether the file was read.
parse_nfsroot(options, read) ==
  IF ~options.nfsroot.some
  THEN [res |-> MissingNfsRoot, options |-> options, did_read |-> FALSE]
  ELSE
    LET nfsroot_option == options.nfsroot.val
        sp         == split_once(nfsroot_option, COMMA)
        rootflags0 == IF sp.some THEN NOLOCK \o <<COMMA>> \o sp.right ELSE NOLOCK
        nfsroot0   == IF sp.some THEN sp.left ELSE nfsroot_option
        rootflags1 == rootflags0 \o ADDR
        done(nfsroot, rootflags) == set_nfs_root(options, nfsroot, rootflags)
    IN IF needs_record(nfsroot0)
       THEN IF ~read.ok
            THEN [res |-> ReadFailed, options |-> unassigned(options), did_read |-> TRUE]
            ELSE LET bs == find_bootserver(lines(read.text))
                 IN IF bs.some
                    THEN [res |-> Ok, did_read |-> TRUE,
                          options |-> done(bs.val \o <<COLON>> \o nfsroot0,
                                           rootflags1 \o bs.val)]
                    ELSE [res |-> Ok, did_read |-> TRUE,
                          options |-> done(nfsroot0, rootflags1)]
       ELSE LET bootserver == explicit_host(nfsroot0)
            IN [res |-> Ok, did_read |-> FALSE,
                options |-> done(nfsroot0, rootflags1 \o bootserver)]

(* ------------------------- the tokenizer loop ------------------------- *)
\* One iteration of `for c in cmdline.chars()`: t holds the locals have_value,
\* quoted, key and value.  call is the (key, value) handed to parse_option in
\* this iteration, if any; res is Ok unless that call made parse_cmdline leave.
\* (skip_equals_always: every '=' dropped, also inside a value)
skip_equals_always(have_value) == TRUE
\* the '=' arm: the first '=' of an option is skipped, a later one is not
skip_equals(have_value) == ~have_value

\* (is_separator_anywhere: the `if !quoted` test left out)
is_separator_anywhere(c, is_quoted) == c \in {SP, NL}
\* the ' ' | '\n' arm is taken and its `if !quoted` holds
is_separator(c, is_quoted) == c \in {SP, NL} /\ ~is_quoted

\* the '"' arm: the quote itself is always skipped
skip_quote == TRUE

\* (key_present_always: the `if !key.is_empty()` test left out)
key_present_always(k) == TRUE
\* line 115: parse_option is called only for a non-empty key
key_present(k) == k # <<>>

\* (reset_have_value_kept: `have_value = false` forgotten after an option)
reset_have_value_kept(hv) == hv
\* line 120: have_value after a completed option
reset_have_value(hv) == FALSE

loop_body(c, t, options) ==
  LET completes == is_separator(c, t.quoted)
      calls     == completes /\ key_present(t.key)
      arg       == IF t.have_value THEN Some(t.value) ELSE None
      po        == IF calls THEN parse_option(t.key, arg, options)
                   ELSE [res |-> Ok, options |-> options]
      skip      == \/ c = EQ /\ skip_equals(t.have_value)
                   \/ c = QUOTE /\ skip_quote
                   \/ completes
      hv        == IF c = EQ THEN TRUE
                   ELSE IF completes THEN reset_have_value(t.have_value)
                   ELSE t.have_value
      q         == IF c = QUOTE THEN ~t.quoted ELSE t.quoted
      k0        == IF completes THEN <<>> ELSE t.key
      v0        == IF completes THEN <<>> ELSE t.value
  IN [res     |-> po.res,
      options |-> po.options,
      call    |-> IF calls THEN <<[key |-> t.key, value |-> arg]>> ELSE <<>>,
      t       |-> [have_value |-> hv,
                   quoted     |-> q,
                   key        |-> IF ~skip /\ ~hv THEN Append(k0, c) ELSE k0,
                   value      |-> IF ~skip /\ hv THEN Append(v0, c) ELSE v0]]

(* ------------------------------ inputs -------------------------------- *)
\* pieces of command line text: options with or without their separator
Chunks ==
  { K_root \o <<EQ>> \o DEV_NFS \o <<SP>>,
    K_root \o <<EQ, "d", SP>>,
    K_root \o <<EQ, SP>>,
    K_root \o <<SP>>,
    K_root \o <<EQ, QUOTE, "d">>,
    K_rootfstype \o <<EQ>> \o NFS \o <<NL>>,
    K_rootfstype \o <<EQ, "e", SP>>,
    K_rootfstype \o <<SP>>,
    K_rootflags \o <<EQ, "a", EQ, "b", SP>>,
    K_rootflags \o <<EQ, QUOTE, "a", SP, "b", QUOTE, SP>>,
    K_rootflags \o <<EQ, "e", NL>>,
    K_rootflags \o <<SP>>,
    K_ro \o <<SP>>,
    K_rw \o <<SP>>,
    K_rw \o <<NL>>,
    K_rw,
    K_nfsroot \o <<EQ, "h", COLON, "p", COMMA, "o", SP>>,
    K_nfsroot \o <<EQ, "p", SP>>,
    K_nfsroot \o <<SP>>,
    K_init \o <<EQ, "s", SP>>,
    K_init \o <<EQ, "t", NL>>,
    K_init \o <<EQ, "s", NUL, SP>>,
    K_init \o <<SP>>,
    K_root \o <<"w", "a", "i", "t", SP>>,
    <<"u", EQ, "x", NL>>,
    <<EQ, "x", SP>>,
    <<SP>> }

\* pieces of command lines that select and describe a network root
NfsChunks ==
  { K_root \o <<EQ>> \o DEV_NFS \o <<SP>>,
    K_rootfstype \o <<EQ>> \o NFS \o <<SP>>,
    K_root \o <<EQ, "d", SP>>,
    K_rootflags \o <<EQ, "e", SP>>,
    K_nfsroot \o <<EQ, "h", COLON, "p", COMMA, "o", SP>>,
    K_nfsroot \o <<EQ, "h", COLON, "p", SP>>,
    K_nfsroot \o <<EQ, "h", COLON, "p", COLON, "q", SP>>,
    K_nfsroot \o <<EQ, "p", COMMA, "o", COMMA, "v", SP>>,
    K_nfsroot \o <<EQ, "p", COMMA, "o", COLON, "q", SP>>,
    K_nfsroot \o <<EQ, "p", SP>> }

RECURSIVE Concats(_, _)
\* the texts made of at most n pieces of C
Concats(C, n) ==
  IF n = 0 THEN {<<>>}
  ELSE LET shorter == Concats(C, n-1)
       IN shorter \cup {s \o c : s \in shorter, c \in C}

Cmdlines == Concats(Chunks, MaxChunks) \cup Concats(NfsChunks, MaxNfsChunks)

\* what read_to_string("/proc/net/pnp") can return
PnpTexts ==
  { <<>>,
    BOOTSERVER \o <<SP, "s", NL>>,
    BOOTSERVER \o <<SP, "s", CR, NL>>,
    <<"x", SP, "y", NL>> \o BOOTSERVER \o <<SP, "s", NL>> \o BOOTSERVER \o <<SP, "t", NL>>,
    <<"n", NL>> \o BOOTSERVER \o <<NL>>,
    BOOTSERVER \o <<SP, "a", COLON, "b">>,
    <<"x", SP>> \o BOOTSERVER \o <<NL>> \o BOOTSERVER \o <<SP, "s", SP, "t", NL>> }

PnpReads == {[ok |-> TRUE, text |-> x] : x \in PnpTexts} \cup {[ok |-> FALSE, text |-> <<>>]}

(* ------------------------------ state --------------------------------- *)
VARIABLES
  cmdline,      \* the argument of parse_cmdline
  pos,          \* index of the next character of the loop
  have_value, quoted, key, value,   \* the locals of parse_cmdline
  options,      \* the CmdlineOptions behind the &mut
  pc,           \* "scan": in the loop, "nfsroot": calling parse_nfsroot, "done"
  result,       \* Running until parse_cmdline leaves, then what it left with
  dispatched,   \* the (key, value) arguments of the calls of parse_option so far
  nfs_called,   \* parse_nfsroot has been called
  pnp_reads     \* the outcomes of the reads of /proc/net/pnp so far

vars == <<cmdline, pos, have_value, quoted, key, value, options, pc, result,
          dispatched, nfs_called, pnp_reads>>

\* (nfs_selected_root_only: the rootfstype half of the test left out)
nfs_selected_root_only(o) == o.root = Some(DEV_NFS)
\* (nfs_selected_both: && in the place of ||)
nfs_selected_both(o) == o.root = Some(DEV_NFS) /\ o.rootfstype = Some(NFS)
\* the test of line 134
nfs_selected(o) == o.root = Some(DEV_NFS) \/ o.rootfstype = Some(NFS)

RECURSIVE scan(_, _, _, _)
\* the loop of lines 100-133 from character i on: Ok with the options at its
\* end, or what the first failing call of parse_option left
scan(text, i, t, o) ==
  IF i > Len(text) THEN [res |-> Ok, options |-> o]
  ELSE LET r == loop_body(text[i], t, o)
       IN IF r.res # Ok THEN [res |-> r.res, options |-> r.options]
          ELSE scan(text, i + 1, r.t, r.options)

\* parse_cmdline as a function of its arguments and of what the read of
\* /proc/net/pnp gives, should it happen: the result and the options left
parse_cmdline(text, o, read) ==
  LET s == scan(text, 1, [have_value |-> FALSE, quoted |-> FALSE,
                          key |-> <<>>, value |-> <<>>], o)
  IN IF s.res # Ok THEN s
     ELSE IF nfs_selected(s.options)
          THEN LET n == parse_nfsroot(s.options, read)
               IN [res |-> n.res, options |-> n.options]
          ELSE [res |-> Ok, options |-> s.options]

Init ==
  /\ cmdline \in Cmdlines
  /\ pos = 1
  /\ have_value = FALSE
  /\ quoted = FALSE
  /\ key = <<>>
  /\ value = <<>>
  /\ options = DefaultOptions
  /\ pc = "scan"
  /\ result = Running
  /\ dispatched = <<>>
  /\ nfs_called = FALSE
  /\ pnp_reads = <<>>

\* lines 100-133: one character of the loop
ScanChar ==
  /\ pc = "scan"
  /\ pos <= Len(cmdline)
  /\ LET r == loop_body(cmdline[pos],
                        [have_value |-> have_value, quoted |-> quoted,
                         key |-> key, value |-> value],
                        options)
     IN /\ dispatched' = dispatched \o r.call
        /\ options' = r.options
        /\ IF r.res = Ok
           THEN /\ have_value' = r.t.have_value
                /\ quoted' = r.t.quoted
                /\ key' = r.t.key
                /\ value' = r.t.value
                /\ pos' = pos + 1
                /\ UNCHANGED <<pc, result>>
           ELSE /\ pc' = "done"
                /\ result' = r.res
                /\ UNCHANGED <<have_value, quoted, key, value, pos>>
  /\ UNCHANGED <<cmdline, nfs_called, pnp_reads>>

\* line 134, and line 137 when the test fails
LoopEnd ==
  /\ pc = "scan"
  /\ pos > Len(cmdline)
  /\ IF nfs_selected(options)
     THEN /\ pc' = "nfsroot"
          /\ nfs_called' = TRUE
          /\ UNCHANGED result
     ELSE /\ pc' = "done"
          /\ result' = Ok
          /\ UNCHANGED nfs_called
  /\ UNCHANGED <<cmdline, pos, have_value, quoted, key, value, options,
                 dispatched, pnp_reads>>

\* lines 135-137: parse_nfsroot(options)?; Ok(())
ParseNfsroot ==
  /\ pc = "nfsroot"
  /\ \E read \in PnpReads :
       LET r == parse_nfsroot(options, read)
       IN /\ options' = r.options
          /\ result' = r.res
          /\ pnp_reads' = IF r.did_read THEN Append(pnp_reads, read) ELSE pnp_reads
  /\ pc' = "done"
  /\ UNCHANGED <<cmdline, pos, have_value, quoted, key, value, dispatched, nfs_called>>

Next == ScanChar \/ LoopEnd \/ ParseNfsroot

Spec == Init /\ [][Next]_vars

(***************************************************************************)
(* The command line as written: its options read off the text, without the *)
(* tokenizer.                                                              *)
(***************************************************************************)
Max(S) == CHOOSE x \in S : \A y \in S : y <= x
Min(S) == CHOOSE x \in S : \A y \in S : x <= y

\* position i of s lies inside double quotes
InQuotes(s, i) == Cardinality({j \in 1..(i-1) : s[j] = QUOTE}) % 2 = 1

\* the positions of the unquoted spaces and newlines of s
SepAt(s) == {i \in 1..Len(s) : s[i] \in {SP, NL} /\ ~InQuotes(s, i)}

\* every option of s is followed by an unquoted separator
AllTerminated(s) == s = <<>> \/ Len(s) \in SepAt(s)

\* the text of the option that the separator at e ends
OptionText(s, e) ==
  LET before == {j \in SepAt(s) : j < e}
  IN SubSeq(s, IF before = {} THEN 1 ELSE Max(before) + 1, e - 1)

Unquote(x) == SelectSeq(x, LAMBDA c : c # QUOTE)

\* key and value of an option text: cut at its first '='
TextKey(x) ==
  LET eqs == {i \in 1..Len(x) : x[i] = EQ}
  IN Unquote(IF eqs = {} THEN x ELSE SubSeq(x, 1, Min(eqs) - 1))
TextValue(x) ==
  LET eqs == {i \in 1..Len(x) : x[i] = EQ}
  IN IF eqs = {} THEN None ELSE Some(Unquote(SubSeq(x, Min(eqs) + 1, Len(x))))

RECURSIVE WrittenFrom(_, _)
\* the options of s ended by the separators in E, those with an empty key left out
WrittenFrom(s, E) ==
  IF E = {} THEN <<>>
  ELSE LET e == Max(E)
           x == OptionText(s, e)
       IN WrittenFrom(s, E \ {e}) \o
            (IF TextKey(x) = <<>> THEN <<>>
             ELSE <<[key |-> TextKey(x), value |-> TextValue(x)]>>)

WrittenOptions(s) == WrittenFrom(s, SepAt(s))

\* the value of the last k=value among the pairs w, None when there is none
LastValue(w, k) ==
  LET at == {i \in 1..Len(w) : w[i].key = k /\ w[i].value.some}
  IN IF at = {} THEN None ELSE w[Max(at)].value

\* parse_cmdline has returned Ok(())
ReturnedOk == pc = "done" /\ result = Ok

(***************************************************************************)
(* C1: last occurrence wins for the scalar keys.  When every option is     *)
(* followed by an unquoted separator, parse_cmdline returns Ok and         *)
(* parse_nfsroot was not called, each of root, rootfstype, rootflags and   *)
(* nfsroot holds the value of the last key=value written for it (None when *)
(* there is none) and init those bytes plus NUL (or /sbin/init).           *)
(***************************************************************************)
C1_LastOccurrenceWins ==
  (ReturnedOk /\ ~nfs_called /\ AllTerminated(cmdline)) =>
    LET w == WrittenOptions(cmdline)
    IN /\ options.root = LastValue(w, K_root)
       /\ options.rootfstype = LastValue(w, K_rootfstype)
       /\ options.rootflags = LastValue(w, K_rootflags)
       /\ options.nfsroot = LastValue(w, K_nfsroot)
       /\ options.init = IF LastValue(w, K_init).some
                         THEN LastValue(w, K_init).val \o <<NUL>>
                         ELSE SBIN_INIT

(***************************************************************************)
(* C2: the read-only bit is last-wins.  After an Ok parse of a command     *)
(* line whose options are all terminated, MS_RDONLY is cleared iff some rw *)
(* option is written with no ro option after it.                           *)
(***************************************************************************)
C2_ReadOnlyLastWins ==
  (ReturnedOk /\ AllTerminated(cmdline)) =>
    LET w == WrittenOptions(cmdline)
    IN (MS_RDONLY \notin options.rootfsflags) <=>
         (\E i \in 1..Len(w) :
            /\ w[i].key = K_rw
            /\ \A j \in (i+1)..Len(w) : w[j].key # K_ro)

\* an Ok parse of a command line with ro written before rw: the bit is cleared
C2_Witness ==
  /\ ReturnedOk /\ AllTerminated(cmdline)
  /\ LET w == WrittenOptions(cmdline)
     IN \E i, j \in 1..Len(w) : i < j /\ w[i].key = K_ro /\ w[j].key = K_rw
  /\ MS_RDONLY \notin options.rootfsflags

(***************************************************************************)
(* C3: each of root, rootfstype, rootflags, nfsroot and init handed to     *)
(* parse_option without a value makes parse_cmdline fail with the          *)
(* MissingArgument error of that key: it is the last call, the result      *)
(* names the key, and the key's field is what the earlier calls left.      *)
(***************************************************************************)
RequiresValue == {K_root, K_rootfstype, K_rootflags, K_nfsroot, K_init}

FieldOf(o, k) ==
  CASE k = K_root -> o.root
    [] k = K_rootfstype -> o.rootfstype
    [] k = K_rootflags -> o.rootflags
    [] k = K_nfsroot -> o.nfsroot
    [] k = K_init -> Some(o.init)

C3_MissingArgument ==
  \A i \in 1..Len(dispatched) :
    (dispatched[i].key \in RequiresValue /\ ~dispatched[i].value.some) =>
      LET k == dispatched[i].key
          earlier == LastValue(SubSeq(dispatched, 1, i-1), k)
      IN /\ i = Len(dispatched)
         /\ pc = "done"
         /\ result = MissingArgument(k)
         /\ FieldOf(options, k) =
              IF k # K_init THEN earlier
              ELSE IF earlier.some THEN Some(earlier.val \o <<NUL>>)
              ELSE Some(SBIN_INIT)

(***************************************************************************)
(* C4: end of input completes the pending option.  Once the loop is over   *)
(* with a non-empty key accumulated, that key and value have been handed   *)
(* to parse_option as the last call; the command line "rw" with nothing    *)
(* after it ends with the read-only bit cleared.                          *)
(***************************************************************************)
C4_EndOfInputFlushes ==
  /\ (pos > Len(cmdline) /\ pc # "scan" /\ key # <<>>) =>
       /\ dispatched # <<>>
       /\ dispatched[Len(dispatched)] =
            [key |-> key, value |-> IF have_value THEN Some(value) ELSE None]
  /\ (cmdline = K_rw /\ pc = "done") => MS_RDONLY \notin options.rootfsflags

(***************************************************************************)
(* C5: only the first '=' of an option separates key from value.  The      *)
(* calls of parse_option made so far are exactly the options written in    *)
(* the text read so far, each cut at its first '=': the key is the text    *)
(* before it, the value the text after it with its further '=' kept, None  *)
(* without any '=' and Some("") when nothing follows the '='.             *)
(***************************************************************************)
\* the text the loop has read: up to pos-1, and the character at pos too
\* when the call made for it ended the run
ReadSoFar ==
  SubSeq(cmdline, 1, IF pc = "done" /\ pos <= Len(cmdline) THEN pos ELSE pos - 1)

C5_FirstEqualsSplits == dispatched = WrittenOptions(ReadSoFar)

\* rootflags=a=b was dispatched as rootflags with the value a=b, and after it
\* an option without '=' with None
C5_Witness ==
  /\ \E i \in 1..Len(dispatched) :
       dispatched[i] = [key |-> K_rootflags, value |-> Some(<<"a", EQ, "b">>)]
  /\ \E i \in 1..Len(dispatched) : ~dispatched[i].value.some
  /\ cmdline = K_rootflags \o <<EQ, "a", EQ, "b", SP>> \o K_ro \o <<SP>>

(***************************************************************************)
(* C6: quoting.  The key and value buffers never hold a double quote; a    *)
(* space or newline read while quoted makes no call of parse_option and is *)
(* appended to the buffer being filled; so there are never more calls than *)
(* unquoted separators read.                                               *)
(***************************************************************************)
C6_NoQuoteInBuffers ==
  /\ \A i \in 1..Len(key) : key[i] # QUOTE
  /\ \A i \in 1..Len(value) : value[i] # QUOTE
  /\ Len(dispatched) <= Cardinality(SepAt(ReadSoFar))

C6_QuotedSeparatorStep ==
  (pc = "scan" /\ pos <= Len(cmdline) /\ quoted /\ cmdline[pos] \in {SP, NL}) =>
    /\ dispatched' = dispatched
    /\ pc' = "scan"
    /\ quoted'
    /\ IF have_value
       THEN value' = Append(value, cmdline[pos]) /\ key' = key
       ELSE key' = Append(key, cmdline[pos]) /\ value' = value

C6_Quoting == []C6_NoQuoteInBuffers /\ [][C6_QuotedSeparatorStep]_vars

\* rootflags="a b" was dispatched as one option whose value holds the space
C6_Witness ==
  \E i \in 1..Len(dispatched) :
    dispatched[i] = [key |-> K_rootflags, value |-> Some(<<"a", SP, "b">>)]

(***************************************************************************)
(* The nfsroot value as written: its path part, its options, its host.     *)
(***************************************************************************)
PositionsOf(x, c) == {i \in 1..Len(x) : x[i] = c}

\* the text before the first comma, the whole text without a comma
NfsPath(n) ==
  IF PositionsOf(n, COMMA) = {} THEN n ELSE SubSeq(n, 1, Min(PositionsOf(n, COMMA)) - 1)
\* a comma and the text after the first comma, nothing without a comma
NfsOpts(n) ==
  IF PositionsOf(n, COMMA) = {} THEN <<>>
  ELSE SubSeq(n, Min(PositionsOf(n, COMMA)), Len(n))
HasHost(p) == PositionsOf(p, COLON) # {}
\* the text before the first colon
HostOf(p) == SubSeq(p, 1, Min(PositionsOf(p, COLON)) - 1)

StartsWith(x, pre) == Len(x) >= Len(pre) /\ SubSeq(x, 1, Len(pre)) = pre
EndsWith(x, suf) == Len(x) >= Len(suf) /\ SubSeq(x, Len(x) - Len(suf) + 1, Len(x)) = suf

\* parse_nfsroot has been called and has returned
Resolved == pc = "done" /\ nfs_called

(***************************************************************************)
(* C7: NFS resolution with an explicit host.  When parse_nfsroot ran on an *)
(* nfsroot H:P[,OPTS], it returned Ok with root = H:P, rootfstype = nfs    *)
(* and rootflags = nolock[,OPTS],addr=H, H the text before the first       *)
(* colon, whatever rootflags the command line gave.                        *)
(***************************************************************************)
C7_ExplicitHost ==
  (Resolved /\ options.nfsroot.some /\ HasHost(NfsPath(options.nfsroot.val))) =>
    LET n == options.nfsroot.val
    IN /\ result = Ok
       /\ options.root = Some(NfsPath(n))
       /\ options.rootfstype = Some(NFS)
       /\ options.rootflags = Some(NOLOCK \o NfsOpts(n) \o ADDR \o HostOf(NfsPath(n)))

\* resolution of nfsroot=h:p,o after rootflags=e was given on the command line
C7_Witness ==
  /\ Resolved
  /\ options.nfsroot = Some(<<"h", COLON, "p", COMMA, "o">>)
  /\ \E i \in 1..Len(dispatched) :
       dispatched[i] = [key |-> K_rootflags, value |-> Some(<<"e">>)]
  /\ options.rootflags # Some(<<"e">>)

(***************************************************************************)
(* C8: when the loop has consumed the whole command line, the options      *)
(* applied leave root = /dev/nfs or rootfstype = nfs, and no nfsroot       *)
(* option was applied, parse_cmdline ends with MissingNfsRoot.             *)
(***************************************************************************)
C8_MissingNfsRoot ==
  ( /\ pc = "done"
    /\ pos > Len(cmdline)
    /\ \/ LastValue(dispatched, K_root) = Some(DEV_NFS)
       \/ LastValue(dispatched, K_rootfstype) = Some(NFS)
    /\ \A i \in 1..Len(dispatched) : dispatched[i].key # K_nfsroot )
  => result = MissingNfsRoot

\* rootfstype=nfs without any nfsroot: MissingNfsRoot
C8_Witness ==
  /\ pc = "done"
  /\ result = MissingNfsRoot
  /\ LastValue(dispatched, K_rootfstype) = Some(NFS)
  /\ LastValue(dispatched, K_root) # Some(DEV_NFS)

(***************************************************************************)
(* The boot-server record as written: its lines that begin "bootserver ".  *)
(***************************************************************************)
LineStarts(x) == {i \in 1..Len(x) : i = 1 \/ x[i-1] = NL}
BootserverAt(x) ==
  {i \in LineStarts(x) :
     /\ i + Len(BOOTSERVER) <= Len(x)
     /\ SubSeq(x, i, i + Len(BOOTSERVER)) = BOOTSERVER \o <<SP>>}
\* the rest of the line that begins at i, after "bootserver ", without its
\* line end ("\n" or "\r\n")
BootValue(x, i) ==
  LET from == i + Len(BOOTSERVER) + 1
      nls  == {j \in from..Len(x) : x[j] = NL}
      to   == IF nls = {} THEN Len(x)
              ELSE IF Min(nls) > from /\ x[Min(nls) - 1] = CR THEN Min(nls) - 2
              ELSE Min(nls) - 1
  IN SubSeq(x, from, to)

\* the record was read, once, and the read gave a text
RecordRead == Len(pnp_reads) = 1 /\ pnp_reads[1].ok

(***************************************************************************)
(* C9: a missing boot server is not an error.  When parse_nfsroot ran on   *)
(* an nfsroot whose path part has no colon and the record was read and has *)
(* no bootserver line, the result is Ok, rootflags ends with "addr=", root *)
(* is the path as given and rootfstype is nfs.                             *)
(***************************************************************************)
C9_NoBootserver ==
  ( /\ Resolved
    /\ options.nfsroot.some
    /\ ~HasHost(NfsPath(options.nfsroot.val))
    /\ RecordRead
    /\ BootserverAt(pnp_reads[1].text) = {} )
  => /\ result = Ok
     /\ options.root = Some(NfsPath(options.nfsroot.val))
     /\ options.rootfstype = Some(NFS)
     /\ options.rootflags.some
     /\ options.rootflags.val =
          NOLOCK \o NfsOpts(options.nfsroot.val) \o ADDR
     /\ EndsWith(options.rootflags.val, <<"a", "d", "d", "r", "=">>)

\* nfsroot=p,o,v resolved against a record whose only "bootserver" line has no space
C9_Witness ==
  /\ Resolved /\ result = Ok
  /\ options.nfsroot = Some(<<"p", COMMA, "o", COMMA, "v">>)
  /\ RecordRead
  /\ pnp_reads[1].text = <<"n", NL>> \o BOOTSERVER \o <<NL>>
  /\ options.root = Some(<<"p">>)

(***************************************************************************)
(* C10 as stated: after every successful resolution root is host:path,     *)
(* rootflags begins with nolock, rootfstype is nfs, and rootflags ends     *)
(* with ",addr=" followed by the host part of root.                        *)
(***************************************************************************)
C10_PostResolution ==
  (Resolved /\ result = Ok) =>
    /\ options.root.some /\ HasHost(options.root.val)
    /\ options.rootflags.some /\ StartsWith(options.rootflags.val, NOLOCK)
    /\ options.rootfstype = Some(NFS)
    /\ EndsWith(options.rootflags.val, ADDR \o HostOf(options.root.val))

(***************************************************************************)
(* C10 amended: after every successful resolution rootfstype is nfs and    *)
(* rootflags begins with nolock and ends with ",addr=" followed by a host  *)
(* H that agrees with root: when the path part of nfsroot has a colon,     *)
(* root is that part and H its text before the first colon; when it has    *)
(* none and the record has a bootserver line, H is the value V of the      *)
(* first such line and root is V:path; when it has none and the record has *)
(* no bootserver line, H is empty and root is the bare path, without a     *)
(* host.                                                                   *)
(***************************************************************************)
C10_PostResolutionAmended ==
  (Resolved /\ result = Ok) =>
    /\ options.rootfstype = Some(NFS)
    /\ options.root.some
    /\ options.rootflags.some
    /\ options.nfsroot.some
    /\ StartsWith(options.rootflags.val, NOLOCK)
    /\ LET path == NfsPath(options.nfsroot.val)
           root == options.root.val
           rootflags == options.rootflags.val
       IN IF HasHost(path)
          THEN /\ root = path
               /\ EndsWith(rootflags, ADDR \o HostOf(root))
          ELSE /\ RecordRead
               /\ LET rec == pnp_reads[1].text
                  IN IF BootserverAt(rec) # {}
                     THEN LET V == BootValue(rec, Min(BootserverAt(rec)))
                          IN /\ root = V \o <<COLON>> \o path
                             /\ HasHost(root)
                             /\ EndsWith(rootflags, ADDR \o V)
                     ELSE /\ root = path
                          /\ ~HasHost(root)
                          /\ EndsWith(rootflags, ADDR)

\* root=/dev/nfs resolved with the host taken from the record: rootfstype
\* was unset before the resolution and is nfs after it
C10_Witness ==
  /\ Resolved /\ result = Ok
  /\ RecordRead
  /\ BootserverAt(pnp_reads[1].text) # {}
  /\ \A i \in 1..Len(dispatched) : dispatched[i].key # K_rootfstype
  /\ options.root = Some(<<"s", COLON, "p">>)

(***************************************************************************)
(* C11: every error aborts parsing at once.  When the call of parse_option *)
(* for the k-th option fails, parse_cmdline has returned the error of that *)
(* option, the k-th call is the last one although the text may hold more   *)
(* options, parse_nfsroot was not called and the record not read, and the  *)
(* options are what the calls 1..k-1 made of the defaults.                 *)
(***************************************************************************)
RECURSIVE ApplyAll(_, _)
\* the options after the calls of w, made in order on o
ApplyAll(o, w) ==
  IF w = <<>> THEN o
  ELSE parse_option(w[Len(w)].key, w[Len(w)].value,
                    ApplyAll(o, SubSeq(w, 1, Len(w) - 1))).options

\* parse_cmdline was left from inside the loop
LeftInLoop == pc = "done" /\ pos <= Len(cmdline)

\* the result is an error value handed back to the caller
ReturnedError ==
  result.kind \in {"MissingArgument", "InvalidValue", "MissingNfsRoot", "ReadFailed"}

C11_ErrorAborts ==
  LeftInLoop =>
    /\ dispatched # <<>>
    /\ ReturnedError
    /\ result.key = dispatched[Len(dispatched)].key
    /\ Len(dispatched) = Len(WrittenOptions(SubSeq(cmdline, 1, pos)))
    /\ ~nfs_called
    /\ pnp_reads = <<>>
    /\ options = ApplyAll(DefaultOptions, SubSeq(dispatched, 1, Len(dispatched) - 1))

(***************************************************************************)
(* C12: an init= value with an embedded NUL makes parse_cmdline return an  *)
(* InvalidValue error for init, an error value and not a crash, and init   *)
(* keeps the value it had.                                                 *)
(***************************************************************************)
C12_EmbeddedNul ==
  \A i \in 1..Len(dispatched) :
    ( /\ dispatched[i].key = K_init
      /\ dispatched[i].value.some
      /\ \E j \in 1..Len(dispatched[i].value.val) : dispatched[i].value.val[j] = NUL )
    => /\ i = Len(dispatched)
       /\ pc = "done"
       /\ result = [kind |-> "InvalidValue", key |-> K_init]
       /\ options.init = ApplyAll(DefaultOptions, SubSeq(dispatched, 1, i - 1)).init

(***************************************************************************)
(* C13: unknown and empty keys have no effect.  A step that completes an   *)
(* option whose key is none of the seven recognized keys (rootwait too,    *)
(* with or without a value) calls parse_option, which returns Ok, and      *)
(* leaves every field of the options as it was; a step that completes a    *)
(* segment with an empty key makes no call and leaves the options as they  *)
(* were; no call ever has an empty key.                                    *)
(***************************************************************************)
Recognized == {K_root, K_rootfstype, K_rootflags, K_ro, K_rw, K_nfsroot, K_init}

C13_Step ==
  (pc = "scan" /\ pos <= Len(cmdline) /\ cmdline[pos] \in {SP, NL} /\ ~quoted) =>
    /\ key = <<>> =>
         /\ dispatched' = dispatched
         /\ options' = options
         /\ pc' = "scan" /\ result' = Running
    /\ (key # <<>> /\ key \notin Recognized) =>
         /\ dispatched' = Append(dispatched,
                                 [key |-> key,
                                  value |-> IF have_value THEN Some(value) ELSE None])
         /\ options' = options
         /\ pc' = "scan" /\ result' = Running

C13_NoEmptyKeyCall == \A i \in 1..Len(dispatched) : dispatched[i].key # <<>>

C13_UnknownAndEmpty == []C13_NoEmptyKeyCall /\ [][C13_Step]_vars

\* "=x rootwait " parsed: one call, for rootwait, and the options are the defaults
C13_Witness ==
  /\ ReturnedOk
  /\ cmdline = <<EQ, "x", SP>> \o K_root \o <<"w", "a", "i", "t", SP>>
  /\ dispatched = <<[key |-> K_root \o <<"w", "a", "i", "t">>, value |-> None]>>
  /\ options = DefaultOptions

(***************************************************************************)
(* Swapping two adjacent options of a command line.                        *)
(***************************************************************************)
\* first position of the segment that the separator at e ends
SegStart(s, e) ==
  LET before == {j \in SepAt(s) : j < e}
  IN IF before = {} THEN 1 ELSE Max(before) + 1

\* e1 and e2 end two adjacent options with different keys, not ro next to rw
Swappable(s, e1, e2) ==
  /\ e1 \in SepAt(s) /\ e2 \in SepAt(s) /\ e1 < e2
  /\ \A j \in SepAt(s) : ~(e1 < j /\ j < e2)
  /\ LET k1 == TextKey(OptionText(s, e1))
         k2 == TextKey(OptionText(s, e2))
     IN /\ k1 # <<>> /\ k2 # <<>>
        /\ k1 # k2
        /\ {k1, k2} # {K_ro, K_rw}

\* s with the options ended at e1 and e2 exchanged, each with its separator
Swapped(s, e1, e2) ==
  SubSeq(s, 1, SegStart(s, e1) - 1) \o SubSeq(s, e1 + 1, e2)
    \o SubSeq(s, SegStart(s, e1), e1) \o SubSeq(s, e2 + 1, Len(s))

\* what the read of the record gives in the other run: what it gave in this one
SameRecord == IF pnp_reads = <<>> THEN PnpReads ELSE {pnp_reads[1]}

\* every swap of two adjacent options gives this run's result and options
SwapsAgree ==
  \A e1, e2 \in SepAt(cmdline) :
    Swappable(cmdline, e1, e2) =>
      \A read \in SameRecord :
        parse_cmdline(Swapped(cmdline, e1, e2), DefaultOptions, read)
          = [res |-> result, options |-> options]

(***************************************************************************)
(* C14 as stated: for a command line whose options are all terminated,     *)
(* swapping two adjacent options with different keys (not ro with rw)      *)
(* gives the same result, Ok or error, and the same final options.         *)
(***************************************************************************)
C14_Reorder == (pc = "done" /\ AllTerminated(cmdline)) => SwapsAgree

(***************************************************************************)
(* C14 amended: the same, for the command lines none of whose options      *)
(* fails to apply (the loop runs to its end): the result, Ok or the error  *)
(* of the NFS resolution, and the final options do not depend on the       *)
(* order of two adjacent options with different keys.                      *)
(***************************************************************************)
C14_ReorderAmended ==
  (pc = "done" /\ AllTerminated(cmdline) /\ ~LeftInLoop) => SwapsAgree

\* "root=d rw " parsed: both options took effect, and they can be swapped
C14_Witness ==
  /\ ReturnedOk
  /\ cmdline = K_root \o <<EQ, "d", SP>> \o K_rw \o <<SP>>
  /\ Swappable(cmdline, 7, 10)
  /\ options.root = Some(<<"d">>)
  /\ MS_RDONLY \notin options.rootfsflags

(***************************************************************************)
(* C15: NFS resolution is decided once, after the whole command line, on   *)
(* the final values.  parse_nfsroot is called only when the loop is over,  *)
(* and once the loop is over and the decision taken it has been called iff *)
(* the last root applied is /dev/nfs or the last rootfstype applied is     *)
(* nfs; an nfsroot applied anywhere, also after root=/dev/nfs, is the one  *)
(* the resolution finds.                                                   *)
(***************************************************************************)
\* the loop is over and line 134 has been evaluated
Decided == pos > Len(cmdline) /\ pc # "scan"

C15_DecidedAtEnd ==
  /\ nfs_called => Decided
  /\ pc = "nfsroot" => nfs_called
  /\ Decided =>
       (nfs_called <=>
          \/ LastValue(dispatched, K_root) = Some(DEV_NFS)
          \/ LastValue(dispatched, K_rootfstype) = Some(NFS))
  /\ (Resolved /\ LastValue(dispatched, K_nfsroot).some) =>
       /\ result # MissingNfsRoot
       /\ options.nfsroot = LastValue(dispatched, K_nfsroot)

\* once called, parse_nfsroot is not called again
C15_Once == (nfs_called /\ pc = "done") => (pc' = "done" /\ nfs_called')

C15_NfsDecision == []C15_DecidedAtEnd /\ [][C15_Once]_vars

\* root=/dev/nfs overridden by root=d: Ok without resolution
C15_Witness ==
  /\ ReturnedOk
  /\ ~nfs_called
  /\ \E i \in 1..Len(dispatched) :
       dispatched[i] = [key |-> K_root, value |-> Some(DEV_NFS)]
  /\ LastValue(dispatched, K_root) = Some(<<"d">>)

(***************************************************************************)
(* C16: boot-server discovery uses the first matching line only.  When     *)
(* parse_nfsroot ran on a colon-free path P and the record read has a line *)
(* that begins "bootserver ", then with V the rest of the first such line  *)
(* (cut at the first space only) the result is Ok, root is V:P and         *)
(* rootflags is nolock[,OPTS],addr=V; lines without a space and later      *)
(* bootserver lines do not count.                                          *)
(***************************************************************************)
C16_FirstBootserver ==
  ( /\ Resolved
    /\ options.nfsroot.some
    /\ ~HasHost(NfsPath(options.nfsroot.val))
    /\ RecordRead
    /\ BootserverAt(pnp_reads[1].text) # {} )
  => LET rec == pnp_reads[1].text
         V   == BootValue(rec, Min(BootserverAt(rec)))
         P   == NfsPath(options.nfsroot.val)
     IN /\ result = Ok
        /\ options.root = Some(V \o <<COLON>> \o P)
        /\ options.rootflags =
             Some(NOLOCK \o NfsOpts(options.nfsroot.val) \o ADDR \o V)
        /\ EndsWith(options.rootflags.val, ADDR \o V)

\* a record with the lines "x y", "bootserver s", "bootserver t": the host is s
C16_Witness ==
  /\ Resolved /\ result = Ok
  /\ RecordRead
  /\ Cardinality(BootserverAt(pnp_reads[1].text)) = 2
  /\ options.nfsroot = Some(<<"p">>)
  /\ options.root = Some(<<"s", COLON, "p">>)

(***************************************************************************)
(* C17: the record is read at most once, and only when parse_nfsroot was   *)
(* called with nfsroot set and no colon before its first comma.  In every  *)
(* other run it is never read, so no such run ends with the read error.    *)
(***************************************************************************)
C17_ReadOnlyWhenNeeded ==
  /\ Len(pnp_reads) <= 1
  /\ pnp_reads # <<>> =>
       /\ Resolved
       /\ options.nfsroot.some
       /\ ~HasHost(NfsPath(options.nfsroot.val))
  /\ result = ReadFailed => (pnp_reads # <<>> /\ ~pnp_reads[1].ok)
  /\ (pc = "done" /\ (~nfs_called \/ ~options.nfsroot.some
                        \/ HasHost(NfsPath(options.nfsroot.val)))) =>
       (pnp_reads = <<>> /\ result # ReadFailed)

\* nfsroot=p with an unreadable record: one read, and the run fails with it
C17_Witness ==
  /\ Resolved
  /\ result = ReadFailed
  /\ Len(pnp_reads) = 1
  /\ options.nfsroot = Some(<<"p">>)

(***************************************************************************)
(* C18: NFS resolution changes only root, rootflags and rootfstype.  The   *)
(* step of parse_nfsroot, failing or not, leaves rootfsflags, nfsroot and  *)
(* init as they were; after it nfsroot is still the raw value of the last  *)
(* nfsroot= option, its comma-separated options included.                  *)
(***************************************************************************)
C18_Step ==
  pc = "nfsroot" =>
    /\ pc' = "done"
    /\ options'.rootfsflags = options.rootfsflags
    /\ options'.nfsroot = options.nfsroot
    /\ options'.init = options.init

C18_RawNfsroot ==
  Resolved =>
    /\ options.nfsroot = LastValue(dispatched, K_nfsroot)
    /\ options.rootfsflags = ApplyAll(DefaultOptions, dispatched).rootfsflags
    /\ options.init = ApplyAll(DefaultOptions, dispatched).init

C18_ResolutionFrame == []C18_RawNfsroot /\ [][C18_Step]_vars

\* nfsroot=h:p,o resolved: root is h:p, nfsroot still h:p,o
C18_Witness ==
  /\ Resolved /\ result = Ok
  /\ options.nfsroot = Some(<<"h", COLON, "p", COMMA, "o">>)
  /\ options.root = Some(<<"h", COLON, "p">>)
  /\ options.init = SBIN_INIT
  /\ MS_RDONLY \in options.rootfsflags

(***************************************************************************)
(* C19: NFS resolution is all or nothing.  When the step of parse_nfsroot  *)
(* fails (nfsroot unset, or the record unreadable) the options are exactly *)
(* those of the option pass; when it succeeds root, rootflags and          *)
(* rootfstype are all three set by it.                                     *)
(***************************************************************************)
C19_Step ==
  pc = "nfsroot" =>
    /\ result' \in {Ok, MissingNfsRoot, ReadFailed}
    /\ result' # Ok => options' = options
    /\ result' = Ok =>
         /\ options'.root.some /\ options'.rootflags.some
         /\ options'.rootfstype = Some(NFS)
         /\ StartsWith(options'.rootflags.val, NOLOCK)

C19_Failed ==
  (Resolved /\ result # Ok) => options = ApplyAll(DefaultOptions, dispatched)

C19_AllOrNothing == []C19_Failed /\ [][C19_Step]_vars

\* root=/dev/nfs rootflags=e nfsroot=p with an unreadable record: the read
\* error, and root, rootflags and rootfstype as the options left them
C19_Witness ==
  /\ Resolved
  /\ result = ReadFailed
  /\ options.root = Some(DEV_NFS)
  /\ options.rootflags = Some(<<"e">>)
  /\ options.rootfstype = None

====
